---- MODULE Spec2Model ----
(***************************************************************************)
(* Real-time transcription session manager of granola-clone-v1.            *)
(*                                                                         *)
(*   WhisperLocalService   src/src/main/transcription/whisper-local.ts     *)
(*   transcription:* IPC   src/src/main/ipc-handlers.ts                    *)
(*   MeetingPage listeners src/src/renderer/main.tsx                       *)
(*   AudioCapture          src/unnamed/part_005                            *)
(*   audio:* IPC           src/src/main/ipc-handlers.ts                    *)
(*   useAudioCapture       src/src/renderer/stores/meeting-store.ts        *)
(*                                                                         *)
(* Every handler of the main process runs to completion on one event loop. *)
(* The continuation of an `await` runs as a microtask, i.e. before the     *)
(* next socket event, timer or IPC request is handled, so the tail of an   *)
(* IPC handler is part of the step that resolves the promise it awaits.    *)
(* The handlers are therefore written as pure operators on a record m that *)
(* holds the whole state; an action installs the record a handler returns. *)
(***************************************************************************)
EXTENDS Naturals, Sequences, FiniteSets, TLC

\* ------------------------------------------------------------- bounds
MaxSessions == 2      \* instances transcription:start creates in a run
MaxStops == 2         \* stop() calls made in a run
MaxAudio == 1         \* sendAudio calls made in a run
MaxDirectAudio == 2   \* sendAudio calls a direct caller of the class makes
MaxCaptureStarts == 1 \* audio:start-recording requests made in a run
MaxCaptureStops == 2  \* audio:stop-recording requests made in a run
MaxChunks == 2        \* chunks MeetingPage's recorder produces in a run

Sessions == 1 .. MaxSessions
NoSession == 0        \* whisperService = null

Languages == {"en", "fr"}
RendererLanguage == "en"      \* main.tsx:192, transcription.start('en')
Texts == {"", "Hello", "Hello world"}

\* Frames of the wire protocol, server to client (whisper-local.ts:65-96).
\* "bogus" is a decodable frame of unknown type, "malformed" is undecodable.
ReadyFrame == [type |-> "ready"]
DoneFrame == [type |-> "done"]
ErrorFrame == [type |-> "error", message |-> "server"]
TranscriptFrame(t) == [type |-> "transcript", text |-> t]
BogusFrame == [type |-> "bogus"]
MalformedFrame == [type |-> "malformed"]
ControlFrames ==
    {ReadyFrame, DoneFrame, ErrorFrame, BogusFrame, MalformedFrame}
ServerFrames == ControlFrames \cup {TranscriptFrame(t) : t \in Texts}

\* Frames client to server.
ConfigFrame(l) == [type |-> "config", language |-> l]
AudioFrame(c) == [type |-> "audio", data |-> c]
StopFrame == [type |-> "stop"]

VARIABLES
    sock,             \* per instance: state of the WebSocket it created
    ws,               \* per instance: this.ws # null
    isConnected,      \* per instance: this.isConnected
    language,         \* per instance: this.config.language
    owner,            \* per instance: "ipc" (made by transcription:start),
                      \*   "direct" (made by a caller of the class), "none"
    connectResult,    \* per instance: the promise connect() returned
    connTimer,        \* per instance: the 5000 ms timer of connect()
    readyRecv,        \* per instance: a `ready` frame was handled (history)
    wire,             \* per instance: frames put on the link, in order
    stops,            \* per instance: the stop() calls made, in order
    whisperService,   \* the module-level handle of ipc-handlers.ts
    transcript,       \* MeetingPage: transcript state
    transcriptRef,    \* MeetingPage: transcriptRef.current
    transcriptionError, \* MeetingPage: transcriptionError state
    nAudio,           \* sendAudio calls made so far
    lastText,         \* text of the last `transcript` frame forwarded to
                      \*   the renderer, "none" before the first (history)
    audioCapture,     \* ipc-handlers.ts: audioCapture # null; startRecording
                      \*   is called as it is made, so mainWindow is set too
    recording,        \* AudioCapture.recording
    captureCalls,     \* the stopRecording() calls made, in order
    commands,         \* audio:start-capture / audio:stop-capture messages
                      \*   sent to the renderer, in order (history)
    nHandled,         \* how many of them the renderer has handled
    signals,          \* audio:capture-complete / audio:capture-error
                      \*   messages sent to the main process (history)
    nReceived,        \* how many of them the main process has handled
    acquiring,        \* startCaptureInternal calls awaiting their stream
    recorders,        \* the MediaRecorders made by useAudioCapture
    mediaRecorderRef, \* mediaRecorderRef.current: an index of recorders,
                      \*   0 for null
    isRecording,          \* MeetingPage: isRecording state
    isStartingRecording,  \* MeetingPage: isStartingRecording state
    isStoppingRecording,  \* MeetingPage: isStoppingRecording state
    pagePc,           \* MeetingPage: the await handleStartRecording or
                      \*   handleStopRecording is at, "idle" if neither runs
    pageAwaits,       \* MeetingPage: what that await waits for
    pageRecorder,     \* MeetingPage: mediaRecorderRef.current # null
    nChunks,          \* chunks the recorder has produced so far
    converting        \* chunks whose ondataavailable callback awaits
                      \*   event.data.arrayBuffer()

sessionVars ==
    <<sock, ws, isConnected, language, owner, connectResult, connTimer,
      readyRecv, wire, stops, whisperService, transcript,
      transcriptRef, transcriptionError, nAudio, lastText>>

captureVars ==
    <<audioCapture, recording, captureCalls, commands, nHandled, signals,
      nReceived, acquiring, recorders, mediaRecorderRef>>

pageVars ==
    <<isRecording, isStartingRecording, isStoppingRecording, pagePc,
      pageAwaits, pageRecorder, nChunks, converting>>

vars == <<sessionVars, captureVars, pageVars>>

\* The state the handlers work on, as one record.
Cur ==
    [sock |-> sock, ws |-> ws, isConnected |-> isConnected,
     language |-> language, owner |-> owner,
     connectResult |-> connectResult, connTimer |-> connTimer,
     readyRecv |-> readyRecv, wire |-> wire, stops |-> stops,
     whisperService |-> whisperService, transcript |-> transcript,
     transcriptRef |-> transcriptRef,
     transcriptionError |-> transcriptionError,
     nAudio |-> nAudio, lastText |-> lastText]

InstallSession(m) ==
    /\ sock' = m.sock
    /\ ws' = m.ws
    /\ isConnected' = m.isConnected
    /\ language' = m.language
    /\ owner' = m.owner
    /\ connectResult' = m.connectResult
    /\ connTimer' = m.connTimer
    /\ readyRecv' = m.readyRecv
    /\ wire' = m.wire
    /\ stops' = m.stops
    /\ whisperService' = m.whisperService
    /\ transcript' = m.transcript
    /\ transcriptRef' = m.transcriptRef
    /\ transcriptionError' = m.transcriptionError
    /\ nAudio' = m.nAudio
    /\ lastText' = m.lastText

\* A step of the main process's transcription code alone.
Install(m) ==
    /\ InstallSession(m)
    /\ UNCHANGED captureVars
    /\ UNCHANGED pageVars

\* ------------------------------------------------- the WebSocket (ws)
\* sock: "none"       no socket made yet
\*       "connecting" readyState CONNECTING
\*       "open"       readyState OPEN
\*       "closing"    was open, close() called here; frames may still
\*                    arrive until the `close` event
\*       "aborted"    close() called while connecting: `error` then `close`
\*                    events are due
\*       "errored"    the `error` event was delivered, `close` is due
\*       "closed"     the `close` event was delivered

\* ws.send(frame): throws while CONNECTING (see WsSendThrows), puts the
\* frame on the link while OPEN, drops it otherwise.
WsSend(m, s, f) ==
    IF m.sock[s] = "open" THEN [m EXCEPT !.wire[s] = Append(@, f)] ELSE m

WsSendThrows(m, s) == m.sock[s] = "connecting"

\* ws.close(): a no-op on a socket that is closing or closed.
WsClose(m, s) ==
    [m EXCEPT !.sock[s] =
        CASE @ = "connecting" -> "aborted"
          [] @ = "open" -> "closing"
          [] OTHER -> @]

\* ------------------------------------------------------------ renderer
\* MeetingPage's listeners (main.tsx:101-121). `if (result.text)` is false
\* for the empty string. Nothing listens to transcription:ready.
UiResult(t) == [channel |-> "transcription:result", text |-> t]
UiError(e) == [channel |-> "transcription:error", text |-> e]
UiReady == [channel |-> "transcription:ready", text |-> ""]

Truthy(t) == t # ""

\* UiTranscript without the `if (result.text)` guard.
UiTranscriptUnguarded(old, msg) ==
    IF msg.channel = "transcription:result" THEN msg.text ELSE old

UiTranscript(old, msg) ==
    IF msg.channel = "transcription:result" /\ Truthy(msg.text)
    THEN msg.text ELSE old

\* UiErrorState of a listener that keeps what it shows.
UiErrorStateKeep(old, msg) == old

UiErrorState(old, msg) ==
    IF msg.channel = "transcription:error" THEN msg.text ELSE old

\* mainWindow.webContents.send(channel, ...) and the renderer's listener for
\* it. The renderer handles the messages in the order they were sent and the
\* main process reads nothing the listeners write, so a message is handled
\* in the step that sends it.
UiDeliver(m, msg) ==
    [m EXCEPT !.transcript = UiTranscript(@, msg),
              !.transcriptRef = UiTranscript(@, msg),
              !.transcriptionError = UiErrorState(@, msg),
              !.lastText = IF msg.channel = "transcription:result"
                           THEN msg.text ELSE @]

\* this.emit(ev, ...): the listeners transcription:start registered forward
\* `transcript`, `error` and `ready` to the renderer; `disconnected` has no
\* listener. An instance made by another caller has that caller's listeners,
\* which are outside this model.
Emit(m, s, msg) ==
    IF m.owner[s] = "ipc" THEN UiDeliver(m, msg) ELSE m

\* ------------------------------------------- WhisperLocalService
\* disconnect()
Disconnect(m, s) ==
    LET m1 == IF m.ws[s] THEN [WsClose(m, s) EXCEPT !.ws[s] = FALSE] ELSE m
    IN  [m1 EXCEPT !.isConnected[s] = FALSE]

\* The first session id not in use; a new WhisperLocalService gets it.
FreeSessions(m) == {s \in Sessions : m.owner[s] = "none"}
NewSession(m) == CHOOSE s \in FreeSessions(m) : \A t \in FreeSessions(m) : s <= t

\* new WhisperLocalService({language}): the constructor.
New(m, s, l, by) ==
    [m EXCEPT !.owner[s] = by, !.language[s] = l]

\* connect(): the socket is made, the handlers are attached and the 5000 ms
\* timer is set. The URL is the constant DEFAULT_CONFIG.serverUrl, so
\* `new WebSocket` does not throw and the catch branch is not taken.
Connect(m, s) ==
    [m EXCEPT !.sock[s] = "connecting",
              !.ws[s] = TRUE,
              !.connectResult[s] = "pending",
              !.connTimer[s] = "armed"]

\* StartTail that publishes the instance whatever connect() resolved to.
StartTailAlways(m, s, v) == [m EXCEPT !.whisperService = s]

\* transcription:start after `await service.connect()`.
StartTail(m, s, v) ==
    IF v = "true"
    THEN [m EXCEPT !.whisperService = s]
    ELSE [Disconnect(m, s) EXCEPT !.whisperService = NoSession]

\* resolve(v) of the promise connect() returned: only the first call counts.
\* The awaiting transcription:start handler continues in the same step.
ResolveConnect(m, s, v) ==
    IF m.connectResult[s] # "pending" THEN m
    ELSE LET m1 == [m EXCEPT !.connectResult[s] = v]
         IN  IF m.owner[s] = "ipc" THEN StartTail(m1, s, v) ELSE m1

\* transcription:start from `new WhisperLocalService` to `await connect()`.
StartBody(m, l) ==
    LET s == NewSession(m) IN Connect(New(m, s, l, "ipc"), s)

\* What runs when the promise of a stop() call resolves: nothing for a direct
\* caller, `whisperService = null` for transcription:stop, and for
\* transcription:start the same followed by the rest of the handler.
NoCont == [kind |-> "none"]
StopCont == [kind |-> "stop"]
StartCont(l) == [kind |-> "start", language |-> l]

RunCont(m, c) ==
    CASE c.kind = "stop" -> [m EXCEPT !.whisperService = NoSession]
      [] c.kind = "start" ->
            StartBody([m EXCEPT !.whisperService = NoSession], c.language)
      [] OTHER -> m

\* stop(): the record of one call. st is the state of the promise it
\* returned, timer the 10000 ms timer, listener the once('done') listener,
\* cont what awaits the promise.
StopCall(st, timer, listener, c) ==
    [st |-> st, timer |-> timer, listener |-> listener, cont |-> c]

\* stop() that does not look at isConnected.
StopUnchecked(m, s, c) ==
    IF ~m.ws[s]
    THEN RunCont([m EXCEPT !.stops[s] =
                     Append(@, StopCall("resolved", "none", FALSE, c))], c)
    ELSE IF WsSendThrows(m, s)
    THEN [m EXCEPT !.stops[s] =
             Append(@, StopCall("rejected", "none", FALSE, c))]
    ELSE [WsSend(m, s, StopFrame) EXCEPT !.stops[s] =
             Append(@, StopCall("waiting", "armed", TRUE, c))]

Stop(m, s, c) ==
    IF ~m.ws[s]
    THEN RunCont([m EXCEPT !.stops[s] =
                     Append(@, StopCall("resolved", "none", FALSE, c))], c)
    ELSE IF m.isConnected[s]
    THEN IF WsSendThrows(m, s)
         THEN [m EXCEPT !.stops[s] =
                  Append(@, StopCall("rejected", "none", FALSE, c))]
         ELSE [WsSend(m, s, StopFrame) EXCEPT !.stops[s] =
                  Append(@, StopCall("waiting", "armed", TRUE, c))]
    ELSE RunCont([Disconnect(m, s) EXCEPT !.stops[s] =
                     Append(@, StopCall("resolved", "none", FALSE, c))], c)

\* OnStopTimeout without its resolve().
OnStopTimeoutNoResolve(m, s, k) ==
    [Disconnect(m, s) EXCEPT !.stops[s][k].timer = "fired"]

\* The 10000 ms timer of stop() call k: disconnect() and resolve().
OnStopTimeout(m, s, k) ==
    LET c == m.stops[s][k]
        m1 == [Disconnect(m, s) EXCEPT
                  !.stops[s][k].timer = "fired",
                  !.stops[s][k].st = IF @ = "waiting" THEN "resolved" ELSE @]
    IN  IF c.st = "waiting" THEN RunCont(m1, c.cont) ELSE m1

\* DoneListeners without the clearTimeout.
RECURSIVE DoneListenersKeepTimer(_, _, _)
DoneListenersKeepTimer(m, s, k) ==
    IF k > Len(m.stops[s]) THEN m
    ELSE IF m.stops[s][k].listener
    THEN DoneListenersKeepTimer(
            [Disconnect(m, s) EXCEPT
                !.stops[s][k].listener = FALSE,
                !.stops[s][k].st = IF @ = "waiting" THEN "resolved" ELSE @],
            s, k + 1)
    ELSE DoneListenersKeepTimer(m, s, k + 1)

\* emit('done'): every once('done') listener, in the order of registration,
\* is removed and run: clearTimeout, disconnect(), resolve().
RECURSIVE DoneListeners(_, _, _)
DoneListeners(m, s, k) ==
    IF k > Len(m.stops[s]) THEN m
    ELSE IF m.stops[s][k].listener
    THEN DoneListeners(
            [Disconnect(m, s) EXCEPT
                !.stops[s][k].listener = FALSE,
                !.stops[s][k].timer = IF @ = "armed" THEN "cleared" ELSE @,
                !.stops[s][k].st = IF @ = "waiting" THEN "resolved" ELSE @],
            s, k + 1)
    ELSE DoneListeners(m, s, k + 1)

\* ... and then whatever awaited the promises they resolved, in that order.
RECURSIVE DoneConts(_, _, _, _)
DoneConts(m0, m, s, k) ==
    IF k > Len(m0.stops[s]) THEN m
    ELSE IF m0.stops[s][k].listener /\ m0.stops[s][k].st = "waiting"
    THEN DoneConts(m0, RunCont(m, m0.stops[s][k].cont), s, k + 1)
    ELSE DoneConts(m0, m, s, k + 1)

\* OnDone with a disconnect() outside the listeners.
OnDoneDisconnects(m, s) ==
    Disconnect(DoneConts(m, DoneListeners(m, s, 1), s, 1), s)

OnDone(m, s) == DoneConts(m, DoneListeners(m, s, 1), s, 1)

\* OnOpen that sends the default language.
OnOpenDefaultLanguage(m, s) ==
    LET m1 == [m EXCEPT !.isConnected[s] = TRUE]
    IN  IF m1.ws[s] THEN WsSend(m1, s, ConfigFrame("en")) ELSE m1

\* ws.on('open')
OnOpen(m, s) ==
    LET m1 == [m EXCEPT !.isConnected[s] = TRUE]
    IN  IF m1.ws[s] THEN WsSend(m1, s, ConfigFrame(m1.language[s])) ELSE m1

\* What the message handler emits for a frame, as the forwarders of
\* transcription:start pass it on: one message for `ready`, `transcript` and
\* `error`, with no condition on the state of the instance. `done` is emitted
\* too, but only the once('done') listeners of stop() listen to it.
Forwarded(f) ==
    CASE f.type = "ready" -> <<UiReady>>
      [] f.type = "transcript" -> <<UiResult(f.text)>>
      [] f.type = "error" -> <<UiError(f.message)>>
      [] OTHER -> <<>>

RECURSIVE EmitAll(_, _, _)
EmitAll(m, s, msgs) ==
    IF msgs = <<>> THEN m
    ELSE EmitAll(Emit(m, s, Head(msgs)), s, Tail(msgs))

\* OnMessage that takes a frame it does not know as the end of the session.
OnMessageStrict(m, s, f) ==
    LET m1 == EmitAll(m, s, Forwarded(f))
    IN  CASE f.type = "ready" ->
                ResolveConnect([m1 EXCEPT !.readyRecv[s] = TRUE], s, "true")
          [] f.type = "done" -> OnDone(m1, s)
          [] f.type \in {"transcript", "error"} -> m1
          [] OTHER -> Disconnect(m1, s)

\* ws.on('message'): JSON.parse and the switch on message.type. A parse
\* failure is caught and logged; an unknown type matches no case.
OnMessage(m, s, f) ==
    LET m1 == EmitAll(m, s, Forwarded(f))
    IN  CASE f.type = "ready" ->
                ResolveConnect([m1 EXCEPT !.readyRecv[s] = TRUE], s, "true")
          [] f.type = "done" -> OnDone(m1, s)
          [] OTHER -> m1

\* OnSocketError without its resolve(false).
OnSocketErrorNoResolve(m, s) == Emit(m, s, UiError("socket"))

\* ws.on('error')
OnSocketError(m, s) ==
    LET m1 == Emit(m, s, UiError("socket"))
    IN  IF ~m1.isConnected[s] THEN ResolveConnect(m1, s, "false") ELSE m1

\* ws.on('close')
OnClose(m, s) == [m EXCEPT !.isConnected[s] = FALSE]

\* OnConnectTimeout that does not look at isConnected.
OnConnectTimeoutUnchecked(m, s) ==
    LET m1 == [m EXCEPT !.connTimer[s] = "fired"]
    IN  ResolveConnect(IF m1.ws[s] THEN WsClose(m1, s) ELSE m1, s, "false")

\* The 5000 ms timer of connect().
OnConnectTimeout(m, s) ==
    LET m1 == [m EXCEPT !.connTimer[s] = "fired"]
    IN  IF ~m1.isConnected[s]
        THEN ResolveConnect(IF m1.ws[s] THEN WsClose(m1, s) ELSE m1, s, "false")
        ELSE m1

\* audioData.toString('base64'): the text that stands for the bytes of
\* chunk c, different for different chunks.
Base64(c) == <<"base64", c>>

\* SendAudio that puts the new frame before the audio already sent.
SendAudioPrepends(m, s, c) ==
    IF ~m.isConnected[s] \/ ~m.ws[s] \/ m.sock[s] # "open" THEN m
    ELSE [m EXCEPT !.wire[s] =
             <<Head(@)>> \o <<AudioFrame(Base64(c))>> \o Tail(@)]

\* sendAudio(audioData)
SendAudio(m, s, c) ==
    IF ~m.isConnected[s] \/ ~m.ws[s] THEN m
    ELSE WsSend(m, s, AudioFrame(Base64(c)))

\* transcription:send-audio: what the handler does with the request.
SendAudioOutcome(m) ==
    IF m.whisperService = NoSession THEN "threw"
    ELSE IF ~m.isConnected[m.whisperService] THEN "threw"
    ELSE "called"

\* --------------------------------------------------------------- Init
Init ==
    /\ sock = [s \in Sessions |-> "none"]
    /\ ws = [s \in Sessions |-> FALSE]
    /\ isConnected = [s \in Sessions |-> FALSE]
    /\ language = [s \in Sessions |-> "en"]
    /\ owner = [s \in Sessions |-> "none"]
    /\ connectResult = [s \in Sessions |-> "none"]
    /\ connTimer = [s \in Sessions |-> "off"]
    /\ readyRecv = [s \in Sessions |-> FALSE]
    /\ wire = [s \in Sessions |-> <<>>]
    /\ stops = [s \in Sessions |-> <<>>]
    /\ whisperService = NoSession
    /\ transcript = ""
    /\ transcriptRef = ""
    /\ transcriptionError = "null"
    /\ nAudio = 0
    /\ lastText = "none"
    /\ audioCapture = FALSE
    /\ recording = FALSE
    /\ captureCalls = <<>>
    /\ commands = <<>>
    /\ nHandled = 0
    /\ signals = <<>>
    /\ nReceived = 0
    /\ acquiring = 0
    /\ recorders = <<>>
    /\ mediaRecorderRef = 0
    /\ isRecording = FALSE
    /\ isStartingRecording = FALSE
    /\ isStoppingRecording = FALSE
    /\ pagePc = "idle"
    /\ pageAwaits = [s |-> 0, k |-> 0]
    /\ pageRecorder = FALSE
    /\ nChunks = 0
    /\ converting = {}

\* ------------------------------------------- events of the main process
\* The socket opens.
SockOpen(s) ==
    /\ sock[s] = "connecting"
    /\ Install(OnOpen([Cur EXCEPT !.sock[s] = "open"], s))

\* The socket reports an error: the connection attempt failed, the
\* handshake was aborted by close(), or an open link broke. `close` follows.
SockError(s) ==
    /\ sock[s] \in {"connecting", "aborted", "open", "closing"}
    /\ Install(OnSocketError([Cur EXCEPT !.sock[s] = "errored"], s))

\* The `close` event: the server closed an open link, or a close started
\* here (or an error) completed.
SockClose(s) ==
    /\ sock[s] \in {"open", "closing", "errored"}
    /\ Install(OnClose([Cur EXCEPT !.sock[s] = "closed"], s))

\* A frame arrives from the server, which may send anything at any time.
RecvFrame(s, f) ==
    /\ sock[s] \in {"open", "closing"}
    /\ Install(OnMessage(Cur, s, f))

\* The 5000 ms timer of connect() fires.
ConnectTimeout(s) ==
    /\ connTimer[s] = "armed"
    /\ Install(OnConnectTimeout(Cur, s))

\* The 10000 ms timer of a stop() call fires. It was set after connect()
\* set its 5000 ms timer, so that one has fired before, and so have the
\* timers of the earlier stop() calls on the instance.
StopTimeout(s, k) ==
    /\ k \in DOMAIN stops[s]
    /\ stops[s][k].timer = "armed"
    /\ connTimer[s] = "fired"
    /\ \A j \in 1 .. k - 1 : stops[s][j].timer # "armed"
    /\ Install(OnStopTimeout(Cur, s, k))

\* ------------------------------------------------------- IPC requests
PendingStarts ==
    Cardinality({<<s, k>> \in Sessions \X (1 .. MaxStops) :
        /\ k \in DOMAIN stops[s]
        /\ stops[s][k].st = "waiting"
        /\ stops[s][k].cont.kind = "start"})

RECURSIVE StopsMade(_)
StopsMade(S) ==
    IF S = {} THEN 0
    ELSE LET s == CHOOSE x \in S : TRUE
         IN  Len(stops[s]) + StopsMade(S \ {s})

\* transcription:start(language), up to its first await.
TranscriptionStart(m, l) ==
    IF m.whisperService # NoSession
    THEN Stop(m, m.whisperService, StartCont(l))
    ELSE StartBody(m, l)

\* transcription:stop, up to its await.
TranscriptionStop(m) ==
    IF m.whisperService # NoSession
    THEN Stop(m, m.whisperService, StopCont)
    ELSE m

\* The run has room for the instance and the stop() call of one more
\* transcription:start, or for the stop() call of one more transcription:stop.
RoomToStart ==
    /\ Cardinality(FreeSessions(Cur)) > PendingStarts
    /\ whisperService # NoSession => StopsMade(Sessions) < MaxStops

RoomToStop == whisperService # NoSession => StopsMade(Sessions) < MaxStops

\* transcription:start(language)
IpcStart(l) ==
    /\ RoomToStart
    /\ Install(TranscriptionStart(Cur, l))

\* transcription:stop
IpcStop ==
    /\ RoomToStop
    /\ Install(TranscriptionStop(Cur))

\* transcription:send-audio(audioData)
IpcSendAudio ==
    /\ nAudio < MaxAudio
    /\ LET m == [Cur EXCEPT !.nAudio = @ + 1]
       IN  IF SendAudioOutcome(m) = "called"
           THEN Install(SendAudio(m, m.whisperService, m.nAudio))
           ELSE Install(m)

\* ------------------------------------- direct callers of the class
\* WhisperLocalService is exported: its public methods can be called in any
\* order by the code that holds an instance. An instance reads and writes
\* its own fields and socket only, so what one instance can do is seen on
\* one instance.
DirectInstances == {s \in Sessions : owner[s] = "direct"}

SvcNew(l) ==
    /\ DirectInstances = {}
    /\ FreeSessions(Cur) # {}
    /\ Install(New(Cur, NewSession(Cur), l, "direct"))

SvcConnect(s) ==
    /\ owner[s] = "direct"
    /\ connectResult[s] = "none"
    /\ Install(Connect(Cur, s))

SvcSendAudio(s) ==
    /\ owner[s] = "direct"
    /\ nAudio < MaxDirectAudio
    /\ Install(SendAudio([Cur EXCEPT !.nAudio = @ + 1], s, nAudio + 1))

SvcStop(s) ==
    /\ owner[s] = "direct"
    /\ StopsMade(Sessions) < MaxStops
    /\ Install(Stop(Cur, s, NoCont))

\* ------------------------------------------------ capture coordination
\* Messages main process to renderer, and the signals sent back. req is the
\* stopRecording() call whose audio:stop-capture the signal answers, 0 for a
\* signal that answers none (a failed audio:start-capture).
StartCapture == [cmd |-> "start", req |-> 0]
StopCapture(k) == [cmd |-> "stop", req |-> k]
CaptureComplete(k) == [sig |-> "complete", req |-> k]
CaptureError(k) == [sig |-> "error", req |-> k]

\* What settled a stopRecording() call.
NoSignal == [sig |-> "none", req |-> 0]
TimedOut == [sig |-> "timeout", req |-> 0]

\* stopRecording(): the record of one call. st is the state of the promise
\* it returned, timer the 5000 ms timer, onComplete and onError the two
\* ipcMain.once listeners, by the signal that settled the promise.
CaptureCall(st, timer, onComplete, onError, by) ==
    [st |-> st, timer |-> timer, onComplete |-> onComplete,
     onError |-> onError, by |-> by]

StartsMade == Cardinality({i \in DOMAIN commands : commands[i].cmd = "start"})

\* audio:start-recording
AudioStartRecording ==
    /\ StartsMade < MaxCaptureStarts
    /\ audioCapture' = TRUE
    /\ recording' = TRUE
    /\ commands' = Append(commands, StartCapture)
    /\ UNCHANGED <<captureCalls, nHandled, signals, nReceived, acquiring,
                   recorders, mediaRecorderRef>>
    /\ UNCHANGED sessionVars
    /\ UNCHANGED pageVars

\* audio:stop-recording: throws when nothing was ever started, else
\* stopRecording() sets the timer, sends audio:stop-capture and registers
\* the two listeners.
AudioStopRecording ==
    /\ Len(captureCalls) < MaxCaptureStops
    /\ IF ~audioCapture THEN UNCHANGED captureVars
       ELSE /\ recording' = FALSE
            /\ captureCalls' =
                  Append(captureCalls,
                         CaptureCall("pending", "armed", TRUE, TRUE, NoSignal))
            /\ commands' = Append(commands, StopCapture(Len(captureCalls) + 1))
            /\ UNCHANGED <<audioCapture, nHandled, signals, nReceived,
                           acquiring, recorders, mediaRecorderRef>>
    /\ UNCHANGED sessionVars
    /\ UNCHANGED pageVars

\* OnCaptureTimeout without its reject().
OnCaptureTimeoutNoReject(c) == [c EXCEPT !.timer = "fired"]

\* The 5000 ms timer of a stopRecording() call: reject(timeout).
OnCaptureTimeout(c) ==
    [c EXCEPT !.timer = "fired",
              !.st = IF @ = "pending" THEN "rejected" ELSE @,
              !.by = IF c.st = "pending" THEN TimedOut ELSE @]

\* The timers are all 5000 ms, so they fire in the order of the calls.
CaptureTimeout(k) ==
    /\ k \in DOMAIN captureCalls
    /\ captureCalls[k].timer = "armed"
    /\ \A j \in 1 .. k - 1 : captureCalls[j].timer # "armed"
    /\ captureCalls' = [captureCalls EXCEPT ![k] = OnCaptureTimeout(@)]
    /\ UNCHANGED <<audioCapture, recording, commands, nHandled, signals,
                   nReceived, acquiring, recorders, mediaRecorderRef>>
    /\ UNCHANGED sessionVars
    /\ UNCHANGED pageVars

\* A signal reaches a stopRecording() call: its ipcMain.once listener for
\* that channel, if still registered, is removed and run: clearTimeout and
\* resolve(buffer) or reject(error). The listener for the other channel
\* stays registered.
OnSignal(c, sig) ==
    IF (sig.sig = "complete" /\ c.onComplete) \/ (sig.sig = "error" /\ c.onError)
    THEN [c EXCEPT
            !.onComplete = IF sig.sig = "complete" THEN FALSE ELSE @,
            !.onError = IF sig.sig = "error" THEN FALSE ELSE @,
            !.timer = IF @ = "armed" THEN "cleared" ELSE @,
            !.st = IF @ = "pending"
                   THEN (IF sig.sig = "complete" THEN "resolved" ELSE "rejected")
                   ELSE @,
            !.by = IF c.st = "pending" THEN sig ELSE @]
    ELSE c

\* ipcMain handles the next signal: every listener registered on its channel
\* runs, whichever call registered it.
RecvSignal ==
    /\ nReceived < Len(signals)
    /\ nReceived' = nReceived + 1
    /\ captureCalls' =
          [k \in DOMAIN captureCalls |->
              OnSignal(captureCalls[k], signals[nReceived + 1])]
    /\ UNCHANGED <<audioCapture, recording, commands, nHandled, signals,
                   acquiring, recorders, mediaRecorderRef>>
    /\ UNCHANGED sessionVars
    /\ UNCHANGED pageVars

\* A MediaRecorder: state "recording", "inactive" (stop() was called, the
\* stop event is due) or "stopped" (the stop event was handled); onstop is
\* the stop request whose promise its onstop handler resolves, 0 if unset.
Recorder(state, onstop) == [state |-> state, onstop |-> onstop]

\* onStartCapture: startCaptureInternal up to the await of the stream.
RendererStartCapture ==
    /\ nHandled < Len(commands)
    /\ commands[nHandled + 1].cmd = "start"
    /\ nHandled' = nHandled + 1
    /\ acquiring' = acquiring + 1
    /\ UNCHANGED <<audioCapture, recording, captureCalls, commands, signals,
                   nReceived, recorders, mediaRecorderRef>>
    /\ UNCHANGED sessionVars
    /\ UNCHANGED pageVars

\* The stream is there: the recorder is made, started and kept in
\* mediaRecorderRef.
StreamAcquired ==
    /\ acquiring > 0
    /\ acquiring' = acquiring - 1
    /\ recorders' = Append(recorders, Recorder("recording", 0))
    /\ mediaRecorderRef' = Len(recorders) + 1
    /\ UNCHANGED <<audioCapture, recording, captureCalls, commands, nHandled,
                   signals, nReceived>>
    /\ UNCHANGED sessionVars
    /\ UNCHANGED pageVars

\* The stream cannot be had (no permission, no device) or the recorder
\* cannot be made: startCaptureInternal throws and onStartCapture sends
\* audio:capture-error.
StreamFailed ==
    /\ acquiring > 0
    /\ acquiring' = acquiring - 1
    /\ signals' = Append(signals, CaptureError(0))
    /\ UNCHANGED <<audioCapture, recording, captureCalls, commands, nHandled,
                   nReceived, recorders, mediaRecorderRef>>
    /\ UNCHANGED sessionVars
    /\ UNCHANGED pageVars

\* onStopCapture for stop request k: stopCaptureInternal resolves null when
\* there is no recorder, and then nothing is sent. Else it sets onstop and
\* calls stop(). stop() on a recorder that is not recording throws in some
\* versions of the platform and does nothing in others (throws).
RendererStopCapture(throws) ==
    /\ nHandled < Len(commands)
    /\ commands[nHandled + 1].cmd = "stop"
    /\ nHandled' = nHandled + 1
    /\ LET k == commands[nHandled + 1].req
           r == mediaRecorderRef
       IN  IF r = 0 THEN UNCHANGED <<recorders, signals>>
           ELSE IF recorders[r].state = "recording"
           THEN /\ recorders' = [recorders EXCEPT ![r] = Recorder("inactive", k)]
                /\ UNCHANGED signals
           ELSE /\ recorders' = [recorders EXCEPT ![r].onstop = k]
                /\ signals' = IF throws THEN Append(signals, CaptureError(k))
                              ELSE signals
    /\ UNCHANGED <<audioCapture, recording, captureCalls, commands, nReceived,
                   acquiring, mediaRecorderRef>>
    /\ UNCHANGED sessionVars
    /\ UNCHANGED pageVars

\* The stop event of recorder r: its onstop handler clears mediaRecorderRef
\* and resolves with the blob; onStopCapture converts it and sends
\* audio:capture-complete, or audio:capture-error if the conversion throws.
RecorderStopped(r, ok) ==
    /\ r \in DOMAIN recorders
    /\ recorders[r].state = "inactive"
    /\ recorders' = [recorders EXCEPT ![r].state = "stopped"]
    /\ mediaRecorderRef' = 0
    /\ signals' = Append(signals, IF ok THEN CaptureComplete(recorders[r].onstop)
                                  ELSE CaptureError(recorders[r].onstop))
    /\ UNCHANGED <<audioCapture, recording, captureCalls, commands, nHandled,
                   nReceived, acquiring>>
    /\ UNCHANGED sessionVars
    /\ UNCHANGED pageVars

\* ---------------------------------------------------------- MeetingPage
\* handleStartRecording and handleStopRecording (main.tsx:174-351), with
\* checkServer() having answered that the Whisper server is there
\* (whisperAvailable). The record button calls the one or the other as
\* isRecording says and is disabled while either runs; the tray's toggle does
\* the same without being disabled, and the handlers return at once when
\* they already run. An invoke and the main process's handling of it up to
\* its first await are one step.
NothingAwaited == [s |-> 0, k |-> 0]

\* The instance a transcription:start request made now will create: ids are
\* given out in order and never given back.
NextInstance(m) == Cardinality(Sessions \ FreeSessions(m)) + 1

\* The page after `setTranscriptionError(...)`, as part of the state m.
PageError(m, e) == [m EXCEPT !.transcriptionError = e]

\* handleStartRecording up to `await transcription.start('en')`.
PageStartRecording ==
    /\ ~isRecording /\ ~isStartingRecording
    /\ pagePc = "idle"
    /\ RoomToStart
    /\ isStartingRecording' = TRUE
    /\ pagePc' = "awaitStart"
    /\ pageAwaits' = [s |-> NextInstance(Cur), k |-> 0]
    /\ InstallSession(
          TranscriptionStart(PageError(Cur, "null"), RendererLanguage))
    /\ UNCHANGED <<isRecording, isStoppingRecording, pageRecorder, nChunks,
                   converting>>
    /\ UNCHANGED captureVars

\* transcription.start returned: false ends the handler with a message,
\* true takes it to the await of the audio stream.
PageStartReturned ==
    /\ pagePc = "awaitStart"
    /\ owner[pageAwaits.s] = "ipc"
    /\ connectResult[pageAwaits.s] \in {"true", "false"}
    /\ IF connectResult[pageAwaits.s] = "false"
       THEN /\ InstallSession(PageError(Cur, "Could not connect"))
            /\ isStartingRecording' = FALSE
            /\ pagePc' = "idle"
       ELSE /\ InstallSession(Cur)
            /\ pagePc' = "awaitStream"
            /\ UNCHANGED isStartingRecording
    /\ pageAwaits' = NothingAwaited
    /\ UNCHANGED <<isRecording, isStoppingRecording, pageRecorder, nChunks,
                   converting>>
    /\ UNCHANGED captureVars

\* The stream is there: the recorder is made and started.
PageStreamAcquired ==
    /\ pagePc = "awaitStream"
    /\ pageRecorder' = TRUE
    /\ isRecording' = TRUE
    /\ isStartingRecording' = FALSE
    /\ pagePc' = "idle"
    /\ UNCHANGED <<isStoppingRecording, pageAwaits, nChunks, converting>>
    /\ UNCHANGED sessionVars
    /\ UNCHANGED captureVars

\* getUserMedia / getDisplayMedia rejects or the recorder cannot be made: the
\* catch block shows the message and resets the recording state.
PageStreamFailed ==
    /\ pagePc = "awaitStream"
    /\ InstallSession(PageError(Cur, "capture failed"))
    /\ isRecording' = FALSE
    /\ isStartingRecording' = FALSE
    /\ pagePc' = "idle"
    /\ UNCHANGED <<isStoppingRecording, pageAwaits, pageRecorder, nChunks,
                   converting>>
    /\ UNCHANGED captureVars

\* handleStopRecording up to `await transcription.stop()`.
PageStopRecording ==
    /\ isRecording /\ ~isStoppingRecording
    /\ pagePc = "idle"
    /\ RoomToStop
    /\ isStoppingRecording' = TRUE
    /\ pagePc' = "awaitStop"
    /\ pageAwaits' = IF whisperService = NoSession THEN NothingAwaited
                     ELSE [s |-> whisperService,
                           k |-> Len(stops[whisperService]) + 1]
    /\ InstallSession(TranscriptionStop(Cur))
    /\ UNCHANGED <<isRecording, isStartingRecording, pageRecorder, nChunks,
                   converting>>
    /\ UNCHANGED captureVars

\* transcription.stop returned: the recorder is stopped and the recording
\* state reset (the transcript is then saved from transcriptRef).
PageStopReturned ==
    /\ pagePc = "awaitStop"
    /\ pageAwaits # NothingAwaited =>
          stops[pageAwaits.s][pageAwaits.k].st = "resolved"
    /\ pageRecorder' = FALSE
    /\ isRecording' = FALSE
    /\ isStoppingRecording' = FALSE
    /\ pagePc' = "idle"
    /\ pageAwaits' = NothingAwaited
    /\ UNCHANGED <<isStartingRecording, nChunks, converting>>
    /\ UNCHANGED sessionVars
    /\ UNCHANGED captureVars

\* The recorder hands over a chunk (every second): ondataavailable starts
\* `await event.data.arrayBuffer()`.
ChunkProduced ==
    /\ pageRecorder
    /\ nChunks < MaxChunks
    /\ nChunks' = nChunks + 1
    /\ converting' = converting \cup {nChunks + 1}
    /\ UNCHANGED <<isRecording, isStartingRecording, isStoppingRecording,
                   pagePc, pageAwaits, pageRecorder>>
    /\ UNCHANGED sessionVars
    /\ UNCHANGED captureVars

\* transcription:send-audio for chunk c, as the main process handles it; the
\* renderer catches and logs what the handler throws.
TranscriptionSendAudio(m, c) ==
    LET m1 == [m EXCEPT !.nAudio = @ + 1]
    IN  IF SendAudioOutcome(m1) = "called"
        THEN SendAudio(m1, m1.whisperService, c) ELSE m1

\* The arrayBuffer() of chunk c resolves and its callback invokes
\* transcription:send-audio. The callbacks of different chunks await
\* different promises, which the platform resolves in no promised order.
ChunkConverted(c) ==
    /\ c \in converting
    /\ converting' = converting \ {c}
    /\ InstallSession(TranscriptionSendAudio(Cur, c))
    /\ UNCHANGED <<isRecording, isStartingRecording, isStoppingRecording,
                   pagePc, pageAwaits, pageRecorder, nChunks>>
    /\ UNCHANGED captureVars

\* ------------------------------------------------------ specifications
\* The application: the renderer's requests to the transcription:* handlers.
Next ==
    \/ \E s \in Sessions : SockOpen(s)
    \/ \E s \in Sessions : SockError(s)
    \/ \E s \in Sessions : SockClose(s)
    \/ \E s \in Sessions, f \in ServerFrames : RecvFrame(s, f)
    \/ \E s \in Sessions : ConnectTimeout(s)
    \/ \E s \in Sessions, k \in 1 .. MaxStops : StopTimeout(s, k)
    \/ IpcStart(RendererLanguage)
    \/ IpcStop
    \/ IpcSendAudio

Spec == Init /\ [][Next]_vars

\* The class on its own, driven by a direct caller.
NextService ==
    \/ \E s \in Sessions : SockOpen(s)
    \/ \E s \in Sessions : SockError(s)
    \/ \E s \in Sessions : SockClose(s)
    \/ \E s \in Sessions, f \in ControlFrames : RecvFrame(s, f)
    \/ \E s \in Sessions : ConnectTimeout(s)
    \/ \E s \in Sessions, k \in 1 .. MaxStops : StopTimeout(s, k)
    \/ \E l \in Languages : SvcNew(l)
    \/ \E s \in Sessions : SvcConnect(s)
    \/ \E s \in Sessions : SvcSendAudio(s)
    \/ \E s \in Sessions : SvcStop(s)

SpecService == Init /\ [][NextService]_vars

\* Timers that are set do fire.
TimerFairness ==
    /\ \A s \in Sessions : WF_vars(ConnectTimeout(s))
    /\ \A s \in Sessions, k \in 1 .. MaxStops : WF_vars(StopTimeout(s, k))

FairSpecService == SpecService /\ TimerFairness

\* The capture coordination on its own: the audio:* requests, the renderer's
\* capture side and the signals between them.
NextCapture ==
    \/ AudioStartRecording
    \/ AudioStopRecording
    \/ \E k \in 1 .. MaxCaptureStops : CaptureTimeout(k)
    \/ RecvSignal
    \/ RendererStartCapture
    \/ StreamAcquired
    \/ StreamFailed
    \/ \E throws \in BOOLEAN : RendererStopCapture(throws)
    \/ \E r \in 1 .. MaxCaptureStarts, ok \in BOOLEAN : RecorderStopped(r, ok)

SpecCapture == Init /\ [][NextCapture]_vars

CaptureTimerFairness ==
    \A k \in 1 .. MaxCaptureStops : WF_vars(CaptureTimeout(k))

FairSpecCapture == SpecCapture /\ CaptureTimerFairness

\* The application as MeetingPage drives it: the page's handlers make the
\* transcription:* requests.
NextPage ==
    \/ \E s \in Sessions : SockOpen(s)
    \/ \E s \in Sessions : SockError(s)
    \/ \E s \in Sessions : SockClose(s)
    \/ \E s \in Sessions, f \in ControlFrames : RecvFrame(s, f)
    \/ \E s \in Sessions : ConnectTimeout(s)
    \/ \E s \in Sessions, k \in 1 .. MaxStops : StopTimeout(s, k)
    \/ PageStartRecording
    \/ PageStartReturned
    \/ PageStreamAcquired
    \/ PageStreamFailed
    \/ PageStopRecording
    \/ PageStopReturned
    \/ ChunkProduced
    \/ \E c \in 1 .. MaxChunks : ChunkConverted(c)

SpecPage == Init /\ [][NextPage]_vars

\* ============================================================= claims
FramesOfType(s, ty) == {i \in DOMAIN wire[s] : wire[s][i].type = ty}

StopPending(s) == \E k \in DOMAIN stops[s] : stops[s][k].st = "waiting"

\* The link opened at some time: the open handler put `config` on it.
Opened(s) == wire[s] # <<>>

\* C1: an instance that has not received a `ready` frame has put no `audio`
\* frame on its link, whenever sendAudio was called on it.
C1_NoAudioBeforeReady ==
    \A s \in Sessions : ~readyRecv[s] => FramesOfType(s, "audio") = {}

\* C2: on every link, no `audio` frame follows a `stop` frame (stop() on a
\* link that can still carry audio always puts `stop` on it first).
C2_NoAudioAfterStop ==
    \A s \in Sessions : \A i \in FramesOfType(s, "stop") :
        \A j \in FramesOfType(s, "audio") : j < i

\* C3: however many times stop() is called on a session, at most one `stop`
\* frame is on its link and no call rejects.
C3_OneStopFrame ==
    \A s \in Sessions :
        /\ Cardinality(FramesOfType(s, "stop")) <= 1
        /\ \A k \in DOMAIN stops[s] : stops[s][k].st # "rejected"

\* C4: when the 5 s timer of connect() has fired and no `ready` frame has
\* arrived, connect() has resolved to false and the link is not open.
C4_HandshakeTimeout ==
    \A s \in Sessions :
        (connTimer[s] = "fired" /\ ~readyRecv[s])
            => (connectResult[s] = "false" /\ sock[s] # "open")

\* C5: at most one session has an open link.
C5_OneOpenLink == Cardinality({s \in Sessions : sock[s] = "open"}) <= 1

\* C6: no stop() call rejects, and every stop() call resolves in the end.
NoStopRejected ==
    \A s \in Sessions : \A k \in DOMAIN stops[s] : stops[s][k].st # "rejected"

C6_StopResolves ==
    /\ []NoStopRejected
    /\ \A s \in Sessions, k \in 1 .. MaxStops :
          (k \in DOMAIN stops[s])
              ~> (k \in DOMAIN stops[s] /\ stops[s][k].st = "resolved")

\* A call that waited and was resolved by its 10 s timer, followed by a call
\* on the instance that was then already disconnected.
C6_Witness ==
    \E s \in Sessions :
        /\ Len(stops[s]) = 2
        /\ stops[s][1].st = "resolved" /\ stops[s][1].timer = "fired"
        /\ stops[s][2].st = "resolved" /\ stops[s][2].timer = "none"

ForgetListeners(m, s) ==
    [m EXCEPT !.stops[s] =
        [k \in DOMAIN @ |-> [@[k] EXCEPT !.listener = FALSE]]]

C8_StrayDoneIgnored ==
    \A s \in Sessions :
        (sock[s] \in {"open", "closing"} /\ ~StopPending(s)) =>
            ForgetListeners(OnMessage(Cur, s, DoneFrame), s)
                = ForgetListeners(Cur, s)

\* A `done` frame was handled after the 10 s timer had force-closed the
\* session: the listener of a call whose timer fired is used up.
C8_Witness ==
    \E s \in Sessions : \E k \in DOMAIN stops[s] :
        /\ stops[s][k].timer = "fired"
        /\ ~stops[s][k].listener
        /\ ~StopPending(s)

\* C9: when the link of a session transcription:start made reports a failure
\* before it opens, the start request has resolved to false (it never
\* rejects), the instance has let go of the link and is not the active
\* session; and the step that handles the failure leaves no active session.
ConnectFailed(s) ==
    /\ owner[s] = "ipc"
    /\ ~Opened(s)
    /\ sock[s] \in {"errored", "closed"}

C9_ConnectFailure ==
    /\ \A s \in Sessions :
          ConnectFailed(s) =>
              /\ connectResult[s] = "false"
              /\ ~ws[s]
              /\ ~isConnected[s]
              /\ whisperService # s
    /\ \A s \in Sessions :
          (owner[s] = "ipc" /\ sock[s] = "connecting") =>
              LET m == OnSocketError([Cur EXCEPT !.sock[s] = "errored"], s)
              IN  /\ m.connectResult[s] = "false"
                  /\ m.whisperService = NoSession

\* The link failed on its own, before the 5 s timer.
C9_Witness ==
    \E s \in Sessions :
        ConnectFailed(s) /\ connTimer[s] = "armed" /\ connectResult[s] = "false"

\* C10: when the link has opened and then closed without a `ready` frame,
\* and the 5 s timer has fired too, connect() has resolved to false.
C10_ClosedBeforeReady ==
    \A s \in Sessions :
        (Opened(s) /\ sock[s] = "closed" /\ ~readyRecv[s]
            /\ connTimer[s] = "fired") => connectResult[s] = "false"

\* C11: a step that opens the link of a new session of transcription:start
\* leaves no earlier session of transcription:start with an open link: a
\* session whose link was open before the step has had its `stop` frame sent
\* and its link closed by the end of the step.
C11_TeardownBeforeStart ==
    [][\A t \in Sessions :
          (owner[t] = "none" /\ owner'[t] = "ipc") =>
              \A s \in Sessions \ {t} :
                  (owner[s] = "ipc" /\ sock[s] = "open") =>
                      /\ sock'[s] # "open"
                      /\ FramesOfType(s, "stop") # {}]_vars

\* What holds of stop() call k on instance s, and what `done` and the call's
\* timer do to it.
C12_StopCallState(s, k) ==
    LET c == stops[s][k]
    IN  /\ c.st = "waiting" => (c.timer = "armed" /\ c.listener)
        /\ (c.st = "waiting" /\ \A j \in 1 .. k - 1 : stops[s][j].st = "waiting")
              => sock[s] # "closing"
        /\ c.timer \in {"cleared", "fired"} => (c.st = "resolved" /\ ~ws[s])
        /\ c.timer = "cleared" => ~c.listener
        /\ (c.st = "waiting" /\ sock[s] \in {"open", "closing"}) =>
              LET m == OnMessage(Cur, s, DoneFrame)
              IN  /\ m.stops[s][k].st = "resolved"
                  /\ m.stops[s][k].timer = "cleared"
                  /\ ~m.ws[s] /\ m.sock[s] # "open"
        /\ c.timer = "armed" =>
              LET m == OnStopTimeout(Cur, s, k)
              IN  /\ m.stops[s][k].st = "resolved"
                  /\ m.stops[s][k].timer = "fired"
                  /\ ~m.ws[s] /\ m.sock[s] # "open"

C13_ActiveOnlyAfterReady ==
    \A s \in Sessions :
        /\ connectResult[s] = "true" => readyRecv[s]
        /\ whisperService = s =>
              (owner[s] = "ipc" /\ connectResult[s] = "true" /\ readyRecv[s])

\* One session is active while another has its link open, has sent `config`
\* and has had no `ready` frame yet.
C13_Witness ==
    \E s, t \in Sessions :
        /\ whisperService = s
        /\ sock[t] = "open" /\ Opened(t) /\ ~readyRecv[t]
        /\ connectResult[t] = "pending"

\* C14: when no session of transcription:start is left with a start that
\* did not resolve to false (none was started, or every start failed), a
\* transcription:send-audio request does not throw.
C14_SendAudioSilent ==
    (\A s \in Sessions : owner[s] = "ipc" => connectResult[s] = "false")
        => SendAudioOutcome(Cur) # "threw"

\* C15: when the link of a ready session of transcription:start has closed
\* and stop() was never called on it, the renderer has been sent a
\* transcription:error. (A closed socket delivers no further event, so what
\* has not been sent by then is never sent.)
C15_CloseNotified ==
    \A s \in Sessions :
        (owner[s] = "ipc" /\ connectResult[s] = "true" /\ sock[s] = "closed"
            /\ stops[s] = <<>>) => transcriptionError # "null"

\* C16: a `ready` frame that arrives on an instance that has already handled
\* one is not forwarded to the renderer.
C16_ReadyOnce ==
    \A s \in Sessions :
        (owner[s] = "ipc" /\ readyRecv[s] /\ sock[s] \in {"open", "closing"})
            => Forwarded(ReadyFrame) = <<>>

\* C17: a frame that cannot be decoded or has an unknown or no type is
\* dropped: nothing is forwarded and the handler leaves the whole state (the
\* instance, its link, the pending connect() and stop() calls, the handle,
\* the renderer) as it is.
C17_JunkFrameDropped ==
    \A s \in Sessions : \A f \in {BogusFrame, MalformedFrame} :
        sock[s] \in {"open", "closing"} =>
            /\ Forwarded(f) = <<>>
            /\ OnMessage(Cur, s, f) = Cur

\* A link that can receive such a frame while the instance is connected and
\* both its connect() and a stop() call are pending.
C17_Witness ==
    \E s \in Sessions :
        /\ sock[s] = "open" /\ isConnected[s]
        /\ connectResult[s] = "pending"
        /\ StopPending(s)

\* C18: an `error` frame on a session of transcription:start forwards one
\* transcription:error carrying the frame's message, which the renderer
\* shows, and changes nothing else.
C18_ErrorFrameOnlyNotifies ==
    \A s \in Sessions :
        (owner[s] = "ipc" /\ sock[s] \in {"open", "closing"}) =>
            /\ Forwarded(ErrorFrame) = <<UiError(ErrorFrame.message)>>
            /\ OnMessage(Cur, s, ErrorFrame)
                  = [Cur EXCEPT !.transcriptionError = ErrorFrame.message]

\* The server's error is shown, and the active session is connected and has
\* sent audio.
C18_Witness ==
    \E s \in Sessions :
        /\ transcriptionError = ErrorFrame.message
        /\ whisperService = s /\ sock[s] = "open" /\ isConnected[s]
        /\ FramesOfType(s, "audio") # {}

\* The signals the capture side sent in reply to stop request k.
RepliesTo(k) == {i \in DOMAIN signals : signals[i].req = k}

\* The capture side is through with stop request k: it has handled the
\* audio:stop-capture, and no recorder has a stop event due whose onstop
\* handler would answer it.
CaptureSideDone(k) ==
    /\ \E i \in 1 .. nHandled : commands[i] = StopCapture(k)
    /\ \A r \in DOMAIN recorders :
          ~(recorders[r].state = "inactive" /\ recorders[r].onstop = k)

\* C19: the capture side sends at most one signal in reply to a stop
\* request, and when it is through with the request it has sent exactly one,
\* whether or not there was a recorder.
C19_OneReplyPerStop ==
    \A k \in DOMAIN captureCalls :
        /\ Cardinality(RepliesTo(k)) <= 1
        /\ CaptureSideDone(k) => Cardinality(RepliesTo(k)) = 1

\* What holds of a stopRecording() call at any time: it is pending with its
\* timer set, or resolved by an audio:capture-complete, or rejected by an
\* audio:capture-error or by its timer.
CaptureCallSettledRight(c) ==
    /\ c.st \in {"pending", "resolved", "rejected"}
    /\ c.st = "pending" <=> c.timer = "armed"
    /\ c.st = "pending" <=> c.by = NoSignal
    /\ c.st = "resolved" <=> c.by.sig = "complete"
    /\ c.st = "rejected" <=> c.by.sig \in {"error", "timeout"}
    /\ c.by.sig = "timeout" <=> c.timer = "fired"

\* C20: every stopRecording() call is settled in the end, by the first of an
\* audio:capture-complete (resolved), an audio:capture-error (rejected) and
\* its 5 s timer (rejected), and once settled it stays as it was settled.
C20_StopRecordingSettles ==
    /\ [](\A k \in DOMAIN captureCalls :
            CaptureCallSettledRight(captureCalls[k]))
    /\ [][\A k \in DOMAIN captureCalls :
            captureCalls[k].st # "pending" =>
                /\ captureCalls'[k].st = captureCalls[k].st
                /\ captureCalls'[k].by = captureCalls[k].by]_vars
    /\ \A k \in 1 .. MaxCaptureStops :
          (k \in DOMAIN captureCalls)
              ~> (k \in DOMAIN captureCalls /\ captureCalls[k].st # "pending")

\* A call was rejected by its timer and an audio:capture-complete came after
\* that: it used up the call's listener and the call is still rejected.
C20_Witness ==
    \E k \in DOMAIN captureCalls :
        /\ captureCalls[k].st = "rejected"
        /\ captureCalls[k].by = TimedOut
        /\ ~captureCalls[k].onComplete

\* C21: when the only session transcription:start ever made never opened
\* its link and its start resolved to false, the renderer was told of the
\* failure by that result alone: no transcription:error was sent as well.
C21_OneFailureNotice ==
    \A s \in Sessions :
        (/\ owner[s] = "ipc" /\ connectResult[s] = "false" /\ ~Opened(s)
         /\ \A t \in Sessions \ {s} : owner[t] = "none")
            => transcriptionError = "null"

\* C22: a link that has opened carries exactly one `config` frame, it is the
\* first frame on the link and it names the language the instance was made
\* with; a link that has not opened carries nothing.
C22_ConfigFirstAndOnce ==
    \A s \in Sessions :
        /\ (sock[s] = "open" \/ isConnected[s]) => wire[s] # <<>>
        /\ sock[s] \in {"none", "connecting", "aborted"} => wire[s] = <<>>
        /\ wire[s] # <<>> =>
              /\ wire[s][1] = ConfigFrame(language[s])
              /\ FramesOfType(s, "config") = {1}

\* A link made for "fr" that carried `config`, then audio, then `stop`.
C22_Witness ==
    \E s \in Sessions :
        /\ language[s] = "fr"
        /\ Len(wire[s]) >= 3
        /\ wire[s][2].type = "audio"
        /\ wire[s][Len(wire[s])].type = "stop"

\* The sendAudio call (counted from the first call of the run) whose chunk
\* the i-th frame of the link of s carries.
CallOf(s, i) == wire[s][i].data[2]

\* C23: the `audio` frames on a link carry the chunks of different calls, in
\* the order of the calls; and a sendAudio call on a connected instance
\* whose link is open puts exactly one frame, with the chunk of the call, at
\* the end of what the link carries.
C23_AudioInCallOrder ==
    \A s \in Sessions :
        /\ \A i, j \in FramesOfType(s, "audio") :
              i < j => CallOf(s, i) < CallOf(s, j)
        /\ (sock[s] = "open" /\ isConnected[s] /\ ws[s]) =>
              SendAudio(Cur, s, nAudio + 1).wire[s]
                  = Append(wire[s], AudioFrame(Base64(nAudio + 1)))

\* Two calls were made on a ready instance and both chunks are on the link.
C23_Witness ==
    \E s \in Sessions :
        /\ readyRecv[s]
        /\ Cardinality(FramesOfType(s, "audio")) = 2

\* C24: a step in which a stop() call resolves does not take the handle away
\* from a session whose link is open after the step.
C24_StopClearsOwnSession ==
    [][\A s \in Sessions :
          (/\ whisperService = s
           /\ whisperService' # s
           /\ \E t \in Sessions : \E k \in DOMAIN stops[t] :
                 stops[t][k].st = "waiting" /\ stops'[t][k].st = "resolved")
              => sock'[s] # "open"]_vars

\* A session of transcription:start is over for the handlers: a stop() call
\* on it has resolved, or its start resolved to false.
Discarded(s) ==
    /\ owner[s] = "ipc"
    /\ \/ connectResult[s] = "false"
       \/ \E k \in DOMAIN stops[s] : stops[s][k].st = "resolved"

\* C25: what the link of a discarded session still delivers changes nothing
\* the renderer shows: neither a `transcript` frame nor the socket's error
\* event is forwarded.
C25_NoEventsAfterDiscard ==
    \A s \in Sessions :
        Discarded(s) =>
            /\ sock[s] \in {"open", "closing"} =>
                  \A t \in Texts \ {""} :
                      OnMessage(Cur, s, TranscriptFrame(t)).transcript
                          = transcript
            /\ sock[s] \in {"aborted", "closing"} =>
                  OnSocketError([Cur EXCEPT !.sock[s] = "errored"], s)
                      .transcriptionError = transcriptionError

\* C26: a stopRecording() call is never settled by a signal the capture side
\* sent in reply to the audio:stop-capture of an earlier call that had timed
\* out.
C26_NoStaleSignal ==
    \A k \in DOMAIN captureCalls :
        (/\ captureCalls[k].by.sig \in {"complete", "error"}
         /\ captureCalls[k].by.req \in 1 .. k - 1)
            => captureCalls[captureCalls[k].by.req].by # TimedOut

\* C28: the 5 s timer of connect() firing on an instance whose connect() has
\* resolved to true only marks the timer as fired: the link, the connected
\* flag, the result and every other session stay as they are.
C28_LateConnectTimerHarmless ==
    \A s \in Sessions :
        (connectResult[s] = "true" /\ connTimer[s] = "armed") =>
            OnConnectTimeout(Cur, s) = [Cur EXCEPT !.connTimer[s] = "fired"]

\* The timer has fired on the active session, which is connected with its
\* link open, while another session is still connecting.
C28_Witness ==
    \E s, t \in Sessions :
        /\ connectResult[s] = "true" /\ connTimer[s] = "fired"
        /\ sock[s] = "open" /\ isConnected[s] /\ whisperService = s
        /\ sock[t] = "connecting" /\ connTimer[t] = "armed"

\* C29: stop() on an instance that still holds its link after the link
\* closed sends nothing, lets go of the link and resolves there and then,
\* with no timer and no listener; and every call that resolved without a
\* timer found the instance not connected and sent no `stop` frame.
C29_StopAfterClose ==
    \A s \in Sessions :
        /\ (ws[s] /\ ~isConnected[s] /\ sock[s] = "closed") =>
              LET m == Stop(Cur, s, NoCont)
              IN  /\ m.wire[s] = wire[s]
                  /\ ~m.ws[s] /\ ~m.isConnected[s]
                  /\ m.stops[s] = Append(stops[s],
                        StopCall("resolved", "none", FALSE, NoCont))
        /\ \A k \in DOMAIN stops[s] :
              stops[s][k].timer = "none" =>
                  (stops[s][k].st = "resolved" /\ ~stops[s][k].listener)

\* A ready session lost its link and was then stopped: no `stop` frame, the
\* call resolved without a timer.
C29_Witness ==
    \E s \in Sessions :
        /\ readyRecv[s] /\ sock[s] = "closed" /\ ~ws[s]
        /\ Len(stops[s]) = 1
        /\ stops[s][1] = StopCall("resolved", "none", FALSE, NoCont)
        /\ FramesOfType(s, "stop") = {}

\* MeetingPage is idle: it is not recording and neither handler runs.
PageIdle ==
    /\ ~isRecording /\ ~isStartingRecording /\ ~isStoppingRecording
    /\ pagePc = "idle"

\* C27: whenever MeetingPage is idle, no session of transcription:start is
\* live: none is connected with its link open after a start that resolved
\* to true.
C27_IdleMeansNoSession ==
    PageIdle =>
        \A s \in Sessions :
            ~(/\ owner[s] = "ipc" /\ connectResult[s] = "true"
              /\ sock[s] = "open" /\ isConnected[s])

\* The chunk (counted from the first the recorder produced) that the i-th
\* frame of the link of s carries.
ChunkOf(s, i) == wire[s][i].data[2]

\* C30: on every link the `audio` frames carry the recorder's chunks in the
\* order the recorder produced them.
C30_ChunksInOrder ==
    \A s \in Sessions : \A i, j \in FramesOfType(s, "audio") :
        i < j => ChunkOf(s, i) < ChunkOf(s, j)

====
